---- MODULE Spec2Model ----
(***************************************************************************)
(* zeep.wsdl.wsdl: the WSDL Document and its Definitions.                  *)
(*                                                                         *)
(* Document.__init__ loads the root document, constructs the root          *)
(* Definition (whose constructor recursively constructs the imported       *)
(* Definitions), calls resolve_imports on it and publishes its tables.     *)
(* The recursion of Definition.__init__ / parse_imports and of             *)
(* resolve_imports is modelled with an explicit call stack; one action is  *)
(* one straight-line piece of a method between two calls.                  *)
(*                                                                         *)
(* Python dicts are modelled as sequences of <<key, value>> pairs (tables  *)
(* as sequences of entities) in insertion order, the iteration order of    *)
(* dict in Python 3.7 and later; assigning to an existing key keeps the    *)
(* key's place.                                                            *)
(***************************************************************************)
EXTENDS Integers, Sequences, FiniteSets, TLC

VARIABLES
    location,     \* Document.location: the root location
    docs,         \* what the loader returns for each location (the input)
    registry,     \* Document._definitions: namespace -> Definition
    defs,         \* the Definition objects, in order of construction
    stack,        \* the call stack of __init__ / resolve_imports frames
    phase,        \* "start", "parse", "resolve", "done", "failed"
    error,        \* the exception that ended the construction, or NoError
    published,    \* the Document's public attributes, or Unset
    returned,     \* history: Definitions whose resolve_imports ran to its end
    setLog,       \* history: the Definitions line 174 was executed for
    resolveLog,   \* history: the entity .resolve() calls, in order
    loadLog,      \* history: the locations given to _load_content
    linkLog,      \* history: the import declarations processed
    client,       \* the last call made on the finished Document
    trees,        \* the schema fragment trees parse_types has parsed
    parser_context  \* Document._parser_context, shared by the Definitions

vars == <<location, docs, registry, defs, stack, phase, error, published,
          returned, setLog, resolveLog, loadLog, linkLog, client, trees,
          parser_context>>

----------------------------------------------------------------------------
(* Bounds *)

\* the longest list of wsdl:import declarations of one document
MaxImports == 2
\* the deepest nesting of Definition constructors before Python's recursion
\* limit ends the construction with a RecursionError.  A nested constructor
\* takes two Python frames (__init__, parse_imports), a nested
\* resolve_imports one, so resolve_imports nests twice as deep.
MaxDepth == 4
\* the longest list of wsdl:binding declarations in the binding worlds
MaxBindings == 2
\* the longest list of xsd:schema fragments in the types worlds
MaxFragments == 2

----------------------------------------------------------------------------
(* Python dict *)

DictHas(dict, k) == \E j \in 1..Len(dict) : dict[j][1] = k

DictGet(dict, k) == dict[CHOOSE j \in 1..Len(dict) : dict[j][1] = k][2]

\* dict[k] = v
DictSet(dict, k, v) ==
    IF DictHas(dict, k)
    THEN [j \in 1..Len(dict) |-> IF dict[j][1] = k THEN <<k, v>> ELSE dict[j]]
    ELSE Append(dict, <<k, v>>)

\* dict.values()
DictValues(dict) == [j \in 1..Len(dict) |-> dict[j][2]]

\* a table is a dict keyed by the entity's name
TableHas(t, key) == \E j \in 1..Len(t) : t[j].name = key

TableGet(t, key) == t[CHOOSE j \in 1..Len(t) : t[j].name = key]

\* result[entity.name] = entity
TableSet(t, e) ==
    IF TableHas(t, e.name)
    THEN [j \in 1..Len(t) |-> IF t[j].name = e.name THEN e ELSE t[j]]
    ELSE Append(t, e)

SeqsUpTo(S, n) == UNION {[1..k -> S] : k \in 0..n}

----------------------------------------------------------------------------
(* The documents *)

Locations == {"LA", "LB", "LC", "LS", "LX"}
Namespaces == {"na", "nb", "nc", "ns", "nx"}

\* the binding matchers, in the order parse_binding tries them
Kinds == <<"soap11", "soap12", "httpget", "httppost">>
KindSet == {Kinds[j] : j \in 1..Len(Kinds)}

TableNames == {"messages", "port_types", "bindings", "services"}

\* an import declaration <<namespace, location>>
DeclA == <<"na", "LA">>
DeclB == <<"nb", "LB">>
DeclC == <<"nc", "LC">>
DeclS == <<"ns", "LS">>   \* a bare schema document
DeclX == <<"nx", "LX">>   \* a location that cannot be loaded
DeclM == <<"nb", "LC">>   \* names nb, but LC declares targetNamespace nc

\* an attribute that is not there (or is the empty string): both are false
\* in the tests of lines 304 and 313
Absent == ""

\* an xsd:import directive inside a schema fragment
Directive(ns, loc) == [namespace |-> ns, schemaLocation |-> loc]

\* an xsd:schema element under wsdl:types
Fragment(ns, e, imps) == [tns |-> ns, is_empty |-> e, imports |-> imps]

Frag(ns, e) == Fragment(ns, e, <<>>)

\* The documents without their imports.  A references only itself; B needs
\* C's message and port type; C needs A's port type.  Every document
\* declares a message "mS"; B and C, not A, declare a message "mT".
BaseDocs ==
    [l \in Locations |->
        CASE l = "LA" ->
               [root |-> "definitions", tns |-> "na", imports |-> <<>>,
                types |-> <<>>,
                messages |-> <<[name |-> "mA", ref |-> "tA"],
                               [name |-> "mS", ref |-> "tA"]>>,
                port_types |-> <<[name |-> "pA", ref |-> "mS"]>>,
                bindings |-> <<[name |-> "bA", ref |-> "pA",
                                 match |-> {"soap11", "soap12"}],
                               [name |-> "bN", ref |-> "pA", match |-> {}]>>,
                services |-> <<[name |-> "sA", ref |-> "bA"]>>]
          [] l = "LB" ->
               [root |-> "definitions", tns |-> "nb", imports |-> <<>>,
                types |-> <<Frag("nb", FALSE)>>,
                messages |-> <<[name |-> "mB", ref |-> "tB"],
                               [name |-> "mS", ref |-> "tB"],
                               [name |-> "mT", ref |-> "tB"]>>,
                port_types |-> <<[name |-> "pB", ref |-> "mC"]>>,
                bindings |-> <<[name |-> "bB", ref |-> "pC",
                                 match |-> {"httpget", "httppost"}]>>,
                services |-> <<[name |-> "sB", ref |-> "bB"]>>]
          [] l = "LC" ->
               [root |-> "definitions", tns |-> "nc", imports |-> <<>>,
                types |-> <<Frag("nc", FALSE), Frag("nd", FALSE)>>,
                messages |-> <<[name |-> "mC", ref |-> "tC"],
                               [name |-> "mS", ref |-> "tC"],
                               [name |-> "mT", ref |-> "tC"]>>,
                port_types |-> <<[name |-> "pC", ref |-> "mS"]>>,
                bindings |-> <<[name |-> "bC", ref |-> "pA",
                                 match |-> {"soap12"}]>>,
                services |-> <<[name |-> "sC", ref |-> "bC"]>>]
          [] l = "LS" ->
               [root |-> "schema", tns |-> "ns", imports |-> <<>>,
                types |-> <<>>, messages |-> <<>>, port_types |-> <<>>,
                bindings |-> <<>>, services |-> <<>>]
          [] OTHER ->
               [root |-> "unloadable", tns |-> "nx", imports |-> <<>>,
                types |-> <<>>, messages |-> <<>>, port_types |-> <<>>,
                bindings |-> <<>>, services |-> <<>>]]

\* the import declarations each document may carry
DeclsOf(l) ==
    CASE l = "LA" -> {DeclA, DeclB, DeclC, DeclS, DeclM}
      [] l = "LB" -> {DeclA, DeclC, DeclS, DeclX}
      [] l = "LC" -> {DeclA, DeclM}
      [] OTHER -> {}

WithImports(ia, ib, ic) ==
    [l \in Locations |->
        CASE l = "LA" -> [BaseDocs[l] EXCEPT !.imports = ia]
          [] l = "LB" -> [BaseDocs[l] EXCEPT !.imports = ib]
          [] l = "LC" -> [BaseDocs[l] EXCEPT !.imports = ic]
          [] OTHER -> BaseDocs[l]]

Targets(imps) == {imps[j][2] : j \in 1..Len(imps)}

\* the locations the construction can load, starting at LA
Loadable(d) ==
    LET r1 == {"LA"} \cup Targets(d["LA"].imports)
        r2 == r1 \cup UNION {Targets(d[l].imports) : l \in r1}
    IN  r2 \cup UNION {Targets(d[l].imports) : l \in r2}

\* every choice of import lists (C, the innermost document, declares one
\* import at most); a document that is never loaded has none
ImportWorlds ==
    {w \in {WithImports(ia, ib, ic) :
                ia \in SeqsUpTo(DeclsOf("LA"), MaxImports),
                ib \in SeqsUpTo(DeclsOf("LB"), MaxImports),
                ic \in SeqsUpTo(DeclsOf("LC"), 1)} :
        \A l \in Locations \ Loadable(w) : w[l].imports = <<>>}

\* a root without imports, with every choice of matcher results for its
\* binding declarations
BindingNames == <<"bA", "bN", "bO">>

BindingWorlds ==
    {[BaseDocs EXCEPT !["LA"].bindings =
          [j \in 1..Len(ms) |->
              [name |-> BindingNames[j], ref |-> "pA", match |-> ms[j]]]] :
        ms \in SeqsUpTo(SUBSET KindSet, MaxBindings)}

\* the lists of xsd:import directives a fragment may carry: none, another
\* fragment by its namespace only, by namespace and location, a namespace
\* that no fragment of the worlds below declares
DirectiveLists ==
    {<<>>,
     <<Directive("t2", Absent)>>,
     <<Directive("t2", "rel.xsd")>>,
     <<Directive("t9", Absent)>>,
     <<Directive("t1", "rel.xsd"), Directive("t2", Absent)>>}

\* the fragments of namespace t1 carry every list of directives, the
\* fragments of namespace t2 and of no namespace carry none or the import
\* of t2 by its namespace
Fragments ==
    {Fragment("t1", FALSE, imps) : imps \in DirectiveLists}
        \cup {Fragment(ns, FALSE, imps) :
                 ns \in {Absent, "t2"},
                 imps \in {<<>>, <<Directive("t2", Absent)>>}}

\* a root with every choice of schema fragments under wsdl:types, alone or
\* importing C, whose types hold two fragments
TypesWorlds ==
    {[BaseDocs EXCEPT !["LA"].types = ts, !["LA"].imports = ia] :
        ts \in SeqsUpTo(Fragments, MaxFragments) \ {<<>>},
        ia \in {<<>>, <<DeclC>>}}

Worlds == ImportWorlds \cup BindingWorlds \cup TypesWorlds

----------------------------------------------------------------------------
(* Values *)

None == [origin |-> "None"]
NoError == [exc |-> "none"]
Unset == [set |-> FALSE]

\* Schema(node, transport, location, parser_context, location)
Schema(origin, node, d, loc, empty) ==
    [origin |-> origin, node |-> node, by |-> d, location |-> loc,
     is_empty |-> empty]

Frame(fn, d, pc) == [fn |-> fn, d |-> d, pc |-> pc, i |-> 1]

Top == stack[Len(stack)]
Pop(s) == SubSeq(s, 1, Len(s) - 1)
SetTop(s, f) == [s EXCEPT ![Len(s)] = f]

InFrame(fn, pc) == stack # <<>> /\ Top.fn = fn /\ Top.pc = pc

\* getattr(definition, name)
Attr(def, name) ==
    CASE name = "messages" -> def.messages
      [] name = "port_types" -> def.port_types
      [] name = "bindings" -> def.bindings
      [] name = "services" -> def.services

----------------------------------------------------------------------------
(* Document.__init__, up to the construction of the root Definition *)

Init ==
    /\ location \in {"LA", "LX"}
    /\ docs \in Worlds
    /\ location = "LX" => docs = BaseDocs
    /\ registry = <<>>
    /\ defs = <<>>
    /\ stack = <<>>
    /\ phase = "start"
    /\ error = NoError
    /\ published = Unset
    /\ returned = {}
    /\ setLog = <<>>
    /\ resolveLog = <<>>
    /\ loadLog = <<>>
    /\ linkLog = <<>>
    /\ client = [op |-> "none"]
    /\ trees = <<>>
    /\ parser_context = [schema_nodes |-> <<>>, schema_locations |-> <<>>]

\* the exception is caught and the constructor goes on to line 62
RaiseSwallowed(exc) ==
    /\ phase' = "resolve"
    /\ error' = exc
    /\ stack' = <<>>

\* an exception leaves Document.__init__: no attribute after the raise is set
Raise(exc) ==
    /\ phase' = "failed"
    /\ error' = exc
    /\ stack' = <<>>

\* Definition.__init__, lines 129-143: the fresh object, registered under
\* the document's targetNamespace
NewDefinition(loc) ==
    [location |-> loc,
     schema |-> None, port_types |-> <<>>, messages |-> <<>>,
     bindings |-> <<>>, services |-> <<>>,
     imports |-> <<>>,
     resolved |-> FALSE,
     target_namespace |-> docs[loc].tns]

\* the Definition is not entered in the registry when it is constructed
ConstructUnregistered(loc) ==
    /\ defs' = Append(defs, NewDefinition(loc))
    /\ registry' = registry

Construct(loc) ==
    /\ defs' = Append(defs, NewDefinition(loc))
    /\ registry' = DictSet(registry, docs[loc].tns, Len(defs) + 1)

DocLoadRoot ==
    /\ phase = "start"
    /\ docs[location].root # "unloadable"
    /\ loadLog' = Append(loadLog, location)
    /\ Construct(location)
    /\ stack' = <<Frame("init", 1, "imports")>>
    /\ phase' = "parse"
    /\ UNCHANGED <<location, trees, parser_context, docs, error, published, returned, setLog,
                   resolveLog, linkLog, client>>

DocLoadRootFails ==
    /\ phase = "start"
    /\ docs[location].root = "unloadable"
    /\ loadLog' = Append(loadLog, location)
    /\ Raise([exc |-> "LoadFailure", at |-> location])
    /\ UNCHANGED <<location, trees, parser_context, docs, registry, defs, published, returned,
                   setLog, resolveLog, linkLog, client>>

----------------------------------------------------------------------------
(* Definition.__init__: parse_imports and the local tables *)

\* the document the Definition d was constructed from
DocOf(d) == docs[defs[d].location]

\* the import declaration the top frame's parse_imports loop is at
CurDecl == DocOf(Top.d).imports[Top.i]

AtImport ==
    /\ phase = "parse"
    /\ InFrame("init", "imports")
    /\ Top.i <= Len(DocOf(Top.d).imports)

\* the registry is never consulted: every declaration is loaded
RegisteredNever(ns) == FALSE

\* line 222: namespace in self.wsdl._definitions
Registered(ns) == DictHas(registry, ns)

\* history of one import declaration: the Definition `by` whose declaration
\* it is, the namespace it names, the registry's entry for that namespace
\* when it is processed (0: none), the Definition it is linked to (0: none,
\* a bare schema), whether its location was loaded, the location it names,
\* the Definitions whose constructor is running and the registry's entry
\* for the targetNamespace of the document at that location (0: none)
Link(by, ns, to, loaded) ==
    [by |-> by, ns |-> ns, to |-> to, loaded |-> loaded,
     reg |-> IF DictHas(registry, ns) THEN DictGet(registry, ns) ELSE 0,
     location |-> CurDecl[2],
     open |-> {stack[k].d : k \in 1..Len(stack)},
     held |-> IF DictHas(registry, docs[CurDecl[2]].tns)
              THEN DictGet(registry, docs[CurDecl[2]].tns) ELSE 0]

\* lines 222-223: the namespace is in the registry
ImportRegistered ==
    /\ AtImport
    /\ Registered(CurDecl[1])
    /\ defs' = [defs EXCEPT ![Top.d].imports =
                   DictSet(@, CurDecl[1], DictGet(registry, CurDecl[1]))]
    /\ linkLog' = Append(linkLog,
                     Link(Top.d, CurDecl[1], DictGet(registry, CurDecl[1]), FALSE))
    /\ stack' = SetTop(stack, [Top EXCEPT !.i = @ + 1])
    /\ UNCHANGED <<location, trees, parser_context, docs, registry, phase, error, published,
                   returned, setLog, resolveLog, loadLog, client>>

\* line 226: the loader raises
ImportLoadFails ==
    /\ AtImport
    /\ ~Registered(CurDecl[1])
    /\ docs[CurDecl[2]].root = "unloadable"
    /\ loadLog' = Append(loadLog, CurDecl[2])
    /\ Raise([exc |-> "LoadFailure", at |-> CurDecl[2]])
    /\ UNCHANGED <<location, trees, parser_context, docs, registry, defs, published, returned,
                   setLog, resolveLog, linkLog, client>>

\* lines 226-231: the loaded document is a bare schema
ImportSchema ==
    /\ AtImport
    /\ ~Registered(CurDecl[1])
    /\ docs[CurDecl[2]].root = "schema"
    /\ loadLog' = Append(loadLog, CurDecl[2])
    /\ defs' = [defs EXCEPT ![Top.d].schema =
                   Schema("bare", [doc |-> CurDecl[2]], Top.d, CurDecl[2], FALSE)]
    /\ linkLog' = Append(linkLog, Link(Top.d, CurDecl[1], 0, TRUE))
    /\ stack' = SetTop(stack, [Top EXCEPT !.i = @ + 1])
    /\ UNCHANGED <<location, trees, parser_context, docs, registry, phase, error, published,
                   returned, setLog, resolveLog, client>>

\* lines 226-233: the loaded document is a WSDL; its Definition is constructed
ImportDefinition ==
    /\ AtImport
    /\ ~Registered(CurDecl[1])
    /\ docs[CurDecl[2]].root = "definitions"
    /\ Len(stack) < MaxDepth
    /\ loadLog' = Append(loadLog, CurDecl[2])
    /\ Construct(CurDecl[2])
    /\ linkLog' = Append(linkLog, Link(Top.d, CurDecl[1], Len(defs) + 1, TRUE))
    /\ stack' = Append(stack, Frame("init", Len(defs) + 1, "imports"))
    /\ UNCHANGED <<location, trees, parser_context, docs, phase, error, published, returned,
                   setLog, resolveLog, client>>

\* line 233 when the constructors are nested too deep
ImportRecursionError ==
    /\ AtImport
    /\ ~Registered(CurDecl[1])
    /\ docs[CurDecl[2]].root = "definitions"
    /\ Len(stack) >= MaxDepth
    /\ loadLog' = Append(loadLog, CurDecl[2])
    /\ Raise([exc |-> "RecursionError", at |-> CurDecl[2]])
    /\ UNCHANGED <<location, trees, parser_context, docs, registry, defs, published, returned,
                   setLog, resolveLog, linkLog, client>>

\* parse_types, lines 258-321
RECURSIVE AllEmpty(_)
AllEmpty(frags) ==
    IF frags = <<>> THEN TRUE
    ELSE Head(frags).is_empty /\ AllEmpty(Tail(frags))

\* lines 258-263: the xsd:schema elements under wsdl:types
SchemaNodes(d) == DocOf(d).types

\* lines 269-272: every fragment is serialised and parsed again; the new
\* trees are objects of their own, with the content of the fragments
Reparse(d, frags) ==
    [j \in 1..Len(frags) |->
        [by |-> d, index |-> j - 1, tns |-> frags[j].tns,
         is_empty |-> frags[j].is_empty, imports |-> frags[j].imports]]

\* 'intschema:xsd%d' % i
Tokens == <<"intschema:xsd0", "intschema:xsd1", "intschema:xsd2",
            "intschema:xsd3", "intschema:xsd4">>
Token(i) == Tokens[i + 1]

\* lines 286-289: schema_ns[ns] = 'intschema:xsd%d' % i, in the order of the
\* fragments
RECURSIVE SchemaNs(_, _, _)
SchemaNs(nodes, j, schema_ns) ==
    IF j > Len(nodes) THEN schema_ns
    ELSE SchemaNs(nodes, j + 1, DictSet(schema_ns, nodes[j].tns, Token(j - 1)))

\* lines 290-291: schema_nodes.add(token, node) and schema_locations[token]
\* = location for every fragment; base is the number of trees before this
\* call, so base + j is the tree of fragment j
RECURSIVE Register(_, _, _, _, _)
Register(ctx, d, nodes, base, j) ==
    IF j > Len(nodes) THEN ctx
    ELSE Register(
             [schema_nodes |->
                  Append(ctx.schema_nodes,
                         [token |-> Token(j - 1), tree |-> base + j, by |-> d]),
              schema_locations |->
                  DictSet(ctx.schema_locations, Token(j - 1), defs[d].location)],
             d, nodes, base, j + 1)

\* lines 302-305: the import of fragment number i
FragmentImport(node, i) ==
    Directive(IF node.tns # Absent THEN node.tns ELSE Absent, Token(i))

\* line 314 when the namespace is not a key of schema_ns
KeyError(d, key) == [exc |-> "KeyError", by |-> d, key |-> key]

\* lines 299-316: for fragment i the import of the fragment (j = 0), then
\* its own import directives j = 1, 2, ..; a directive without a location
\* is given the token of its namespace (line 314) and then copied (line 316)
RECURSIVE Stitch(_, _, _, _, _, _)
Stitch(d, nodes, schema_ns, i, j, container) ==
    IF i > Len(nodes)
    THEN [nodes |-> nodes, container |-> container, exc |-> NoError]
    ELSE IF j = 0
    THEN Stitch(d, nodes, schema_ns, i, 1,
                Append(container, FragmentImport(nodes[i], i - 1)))
    ELSE IF j > Len(nodes[i].imports)
    THEN Stitch(d, nodes, schema_ns, i + 1, 0, container)
    ELSE LET import_node == nodes[i].imports[j]
         IN  IF import_node.schemaLocation # Absent
             THEN Stitch(d, nodes, schema_ns, i, j + 1,
                         Append(container, import_node))
             ELSE IF ~DictHas(schema_ns, import_node.namespace)
             THEN [nodes |-> nodes, container |-> container,
                   exc |-> KeyError(d, import_node.namespace)]
             ELSE LET set == [import_node EXCEPT !.schemaLocation =
                                  DictGet(schema_ns, import_node.namespace)]
                  IN  Stitch(d, [nodes EXCEPT ![i].imports[j] = set],
                             schema_ns, i, j + 1, Append(container, set))

\* parse_types: the schema it returns (or the exception it raises), the
\* trees it has parsed as it leaves them, and the parser context
ParseTypes(d) ==
    LET nodes == Reparse(d, SchemaNodes(d))
        loc == defs[d].location
    IN  IF Len(nodes) = 0
        THEN [schema |-> None, exc |-> NoError, trees |-> trees,
              ctx |-> parser_context]
        ELSE IF Len(nodes) = 1
        THEN [schema |-> Schema("fragment", [tree |-> Len(trees) + 1], d, loc,
                                nodes[1].is_empty),
              exc |-> NoError, trees |-> trees \o nodes,
              ctx |-> parser_context]
        ELSE LET st == Stitch(d, nodes, SchemaNs(nodes, 1, <<>>), 1, 0, <<>>)
             IN  [schema |-> Schema("container", [body |-> st.container], d,
                                    loc, AllEmpty(nodes)),
                  exc |-> st.exc, trees |-> trees \o st.nodes,
                  ctx |-> Register(parser_context, d, nodes, Len(trees), 1)]

Entity(d, node, kind) ==
    [name |-> node.name, ref |-> node.ref, kind |-> kind,
     owner |-> d, decl |-> defs[d].location]

\* parse_messages, parse_ports, parse_service: result[name] = entity for
\* every node, in document order
RECURSIVE ParseNodes(_, _, _, _)
ParseNodes(d, nodes, kind, result) ==
    IF nodes = <<>> THEN result
    ELSE ParseNodes(d, Tail(nodes), kind,
                    TableSet(result, Entity(d, Head(nodes), kind)))

\* the last matcher that accepts the node decides
LastMatch(node, j) ==
    LET ks == {k \in j..Len(Kinds) : Kinds[k] \in node.match}
    IN  IF ks = {} THEN "none"
        ELSE Kinds[CHOOSE k \in ks : \A m \in ks : m <= k]

\* lines 394-403: the first matcher, in the order of Kinds, that accepts the
\* node; "none" when no matcher does
RECURSIVE FirstMatch(_, _)
FirstMatch(node, j) ==
    IF j > Len(Kinds) THEN "none"
    ELSE IF Kinds[j] \in node.match THEN Kinds[j]
    ELSE FirstMatch(node, j + 1)

\* parse_binding, lines 391-406
RECURSIVE ParseBindingNodes(_, _, _)
ParseBindingNodes(d, nodes, result) ==
    IF nodes = <<>> THEN result
    ELSE IF FirstMatch(Head(nodes), 1) = "none"
    THEN ParseBindingNodes(d, Tail(nodes), result)
    ELSE ParseBindingNodes(d, Tail(nodes),
             TableSet(result, Entity(d, Head(nodes), FirstMatch(Head(nodes), 1))))

ParseBinding(d) == ParseBindingNodes(d, DocOf(d).bindings, <<>>)

\* lines 148-152, after the parse_imports loop has ended
ParseLocal ==
    /\ phase = "parse"
    /\ InFrame("init", "imports")
    /\ Top.i > Len(DocOf(Top.d).imports)
    /\ LET types == ParseTypes(Top.d)
       IN  /\ trees' = types.trees
           /\ parser_context' = types.ctx
           /\ IF types.exc = NoError
              THEN /\ defs' = [defs EXCEPT ![Top.d] =
                         [@ EXCEPT !.schema = types.schema,
                                   !.messages = ParseNodes(Top.d, DocOf(Top.d).messages, "message", <<>>),
                                   !.port_types = ParseNodes(Top.d, DocOf(Top.d).port_types, "port_type", <<>>),
                                   !.bindings = ParseBinding(Top.d),
                                   !.services = ParseNodes(Top.d, DocOf(Top.d).services, "service", <<>>)]]
                   /\ stack' = SetTop(stack, [Top EXCEPT !.pc = "ret"])
                   /\ UNCHANGED <<phase, error>>
              ELSE /\ Raise(types.exc)
                   /\ UNCHANGED defs
    /\ UNCHANGED <<location, docs, registry, published, returned, setLog,
                   resolveLog, loadLog, linkLog, client>>

\* the importer's frame, below the top frame
Caller == stack[Len(stack) - 1]
CallerDecl == DocOf(Caller.d).imports[Caller.i]

\* line 234: the constructor returned; the importer links the new Definition
\* under the namespace of its declaration
ReturnToImporter ==
    /\ phase = "parse"
    /\ InFrame("init", "ret")
    /\ Len(stack) > 1
    /\ defs' = [defs EXCEPT ![Caller.d].imports =
                   DictSet(@, CallerDecl[1], Top.d)]
    /\ stack' = SetTop(Pop(stack), [Caller EXCEPT !.i = @ + 1])
    /\ UNCHANGED <<location, trees, parser_context, docs, registry, phase, error, published,
                   returned, setLog, resolveLog, loadLog, linkLog, client>>

\* lines 59-60: the root constructor returned; resolve_imports is called
ReturnToDocument ==
    /\ phase = "parse"
    /\ InFrame("init", "ret")
    /\ Len(stack) = 1
    /\ stack' = <<Frame("resolve", Top.d, "guard")>>
    /\ phase' = "resolve"
    /\ UNCHANGED <<location, trees, parser_context, docs, registry, defs, error, published,
                   returned, setLog, resolveLog, loadLog, linkLog, client>>

----------------------------------------------------------------------------
(* The import graph *)

ImportsOf(d) == {defs[d].imports[j][2] : j \in 1..Len(defs[d].imports)}

\* the Definitions that can be reached from those of S over imports
RECURSIVE ReachFrom(_)
ReachFrom(S) ==
    LET more == S \cup UNION {ImportsOf(d) : d \in S}
    IN  IF more = S THEN S ELSE ReachFrom(more)

----------------------------------------------------------------------------
(* Definition.get *)

\* line 166: the IndexError and what its message is formatted from
NotFound(name, key) ==
    [exc |-> "IndexError", args |-> <<"No definition %r found", name>>]

Found(e) == [ok |-> TRUE, val |-> e]
Failed(err) == [ok |-> FALSE, err |-> err]

\* lines 162-166: the imported Definitions, in the order of imports.values()
RECURSIVE GetImported(_, _, _, _)
GetImported(d, name, key, j) ==
    IF j > Len(defs[d].imports) THEN Failed(NotFound(name, key))
    ELSE LET container == Attr(defs[DictValues(defs[d].imports)[j]], name)
         IN  IF TableHas(container, key) THEN Found(TableGet(container, key))
             ELSE GetImported(d, name, key, j + 1)

\* the imports of the imports are searched too
GetTransitive(d, name, key) ==
    LET has == {x \in ReachFrom({d}) : TableHas(Attr(defs[x], name), key)}
    IN  IF has = {} THEN Failed(NotFound(name, key))
        ELSE IF d \in has THEN Found(TableGet(Attr(defs[d], name), key))
        ELSE Found(TableGet(Attr(defs[CHOOSE x \in has : TRUE], name), key))

\* the imported Definitions are searched before the Definition's own table
GetImportsFirst(d, name, key) ==
    LET got == GetImported(d, name, key, 1)
        container == Attr(defs[d], name)
    IN  IF got.ok THEN got
        ELSE IF TableHas(container, key) THEN Found(TableGet(container, key))
        ELSE got

\* Definition.get, lines 157-166
Get(d, name, key) ==
    LET container == Attr(defs[d], name)
    IN  IF TableHas(container, key) THEN Found(TableGet(container, key))
        ELSE GetImported(d, name, key, 1)

----------------------------------------------------------------------------
(* Definition.resolve_imports *)

\* the guard is missing
AlreadyResolvedNever(d) == FALSE

\* line 172
AlreadyResolved(d) == defs[d].resolved

\* lines 179-181: the loop has no break, so it leaves the schema of the last
\* import that has a schema that is not empty, or None
RECURSIVE AdoptLoop(_, _, _)
AdoptLoop(d, j, schema) ==
    IF j > Len(defs[d].imports) THEN schema
    ELSE LET s == defs[DictValues(defs[d].imports)[j]].schema
         IN  AdoptLoop(d, j + 1,
                       IF s # None /\ ~s.is_empty THEN s ELSE schema)

\* lines 183-185
EmptySchema(d) == Schema("empty", None, d, defs[d].location, TRUE)

\* lines 178-185.  The else clause belongs to the for statement: it runs
\* whenever the loop ends without a break, which is always.
ResolveSchema(d) ==
    IF defs[d].schema = None
    THEN LET looped == AdoptLoop(d, 1, None)
             broke == FALSE
         IN  IF broke THEN looped ELSE EmptySchema(d)
    ELSE defs[d].schema

\* the imported Definitions are resolved after the Definition's own entities
ResolveOrderImportsLast ==
    <<"messages", "port_types", "bindings", "services", "imports">>

\* lines 187-200: the loops of resolve_imports
ResolveOrder == <<"imports", "messages", "port_types", "bindings", "services">>

Items(d, pc) == IF pc = "imports" THEN defs[d].imports ELSE Attr(defs[d], pc)

\* the place in lines 187-200 where item i of loop number k is due: the
\* loops that have nothing left are passed over, "ret" is the method's end
RECURSIVE Place(_, _, _)
Place(d, k, i) ==
    IF k > Len(ResolveOrder) THEN [pc |-> "ret", i |-> 1]
    ELSE IF i <= Len(Items(d, ResolveOrder[k])) THEN [pc |-> ResolveOrder[k], i |-> i]
    ELSE Place(d, k + 1, 1)

LoopNo(pc) == CHOOSE k \in 1..Len(ResolveOrder) : ResolveOrder[k] = pc

\* a frame, moved past the item of the loop it is at
Advance(f) == LET pl == Place(f.d, LoopNo(f.pc), f.i + 1)
              IN  [f EXCEPT !.pc = pl.pc, !.i = pl.i]

\* resolve_imports returns: to its caller's loop over the imports (line
\* 188), or to Document.__init__ or the client
Return(s) ==
    IF Len(s) > 1
    THEN SetTop(Pop(s), Advance(s[Len(s) - 1]))
    ELSE <<>>

Resolving == phase \in {"resolve", "done"}

\* lines 172-173: the guard
ResolveGuarded ==
    /\ Resolving
    /\ InFrame("resolve", "guard")
    /\ AlreadyResolved(Top.d)
    /\ stack' = Return(stack)
    /\ UNCHANGED <<location, trees, parser_context, docs, registry, defs, phase, error, published,
                   returned, setLog, resolveLog, loadLog, linkLog, client>>

\* lines 174-185: the flag is set, the schema adopted
ResolveMark ==
    /\ Resolving
    /\ InFrame("resolve", "guard")
    /\ ~AlreadyResolved(Top.d)
    /\ defs' = [defs EXCEPT ![Top.d] =
                   [@ EXCEPT !.resolved = TRUE, !.schema = ResolveSchema(Top.d)]]
    /\ setLog' = Append(setLog, Top.d)
    /\ stack' = SetTop(stack, LET pl == Place(Top.d, 1, 1)
                              IN  [Top EXCEPT !.pc = pl.pc, !.i = pl.i])
    /\ UNCHANGED <<location, trees, parser_context, docs, registry, phase, error, published,
                   returned, resolveLog, loadLog, linkLog, client>>

\* lines 187-188: resolve_imports is called on the next imported Definition
ResolveRecurse ==
    /\ Resolving
    /\ InFrame("resolve", "imports")
    /\ IF Len(stack) < 2 * MaxDepth
       THEN /\ stack' = Append(stack,
                   Frame("resolve", DictValues(defs[Top.d].imports)[Top.i], "guard"))
            /\ UNCHANGED <<phase, error>>
       ELSE Raise([exc |-> "RecursionError", at |-> defs[Top.d].location])
    /\ UNCHANGED <<location, trees, parser_context, docs, registry, defs, published,
                   returned, setLog, resolveLog, loadLog, linkLog, client>>

\* the entity the top frame's loop is at
CurEntity == Attr(defs[Top.d], Top.pc)[Top.i]

\* history of one entity.resolve(): the entity, the entity its reference
\* was resolved to (None: none) and the Definitions whose resolve_imports
\* is further up the call stack
Resolved(e, target) ==
    [owner |-> e.owner, table |-> Top.pc, name |-> e.name, target |-> target,
     callers |-> {stack[k].d : k \in 1..(Len(stack) - 1)}]

\* lines 190-191: message.resolve(self) resolves the parts against the type
\* system
ResolveMessage ==
    /\ Resolving
    /\ InFrame("resolve", "messages")
    /\ resolveLog' = Append(resolveLog, Resolved(CurEntity, None))
    /\ stack' = SetTop(stack, Advance(Top))
    /\ UNCHANGED <<location, trees, parser_context, docs, registry, defs, phase, error, published,
                   returned, setLog, loadLog, linkLog, client>>

\* entity.resolve(self) for an entity that refers to an entry of `table`:
\* the reference is looked up with Definition.get; a failed lookup leaves
\* resolve_imports and the constructor of the Document
ResolveRef(table) ==
    LET got == Get(Top.d, table, CurEntity.ref)
    IN  IF got.ok
        THEN /\ resolveLog' = Append(resolveLog, Resolved(CurEntity, got.val))
             /\ stack' = SetTop(stack, Advance(Top))
             /\ UNCHANGED <<phase, error>>
        ELSE /\ resolveLog' = Append(resolveLog, Resolved(CurEntity, None))
             /\ Raise(got.err)

\* lines 193-194
ResolvePortType ==
    /\ Resolving
    /\ InFrame("resolve", "port_types")
    /\ ResolveRef("messages")
    /\ UNCHANGED <<location, trees, parser_context, docs, registry, defs, published, returned,
                   setLog, loadLog, linkLog, client>>

\* lines 196-197
ResolveBinding ==
    /\ Resolving
    /\ InFrame("resolve", "bindings")
    /\ ResolveRef("port_types")
    /\ UNCHANGED <<location, trees, parser_context, docs, registry, defs, published, returned,
                   setLog, loadLog, linkLog, client>>

\* lines 199-200
ResolveService ==
    /\ Resolving
    /\ InFrame("resolve", "services")
    /\ ResolveRef("bindings")
    /\ UNCHANGED <<location, trees, parser_context, docs, registry, defs, published, returned,
                   setLog, loadLog, linkLog, client>>

\* line 200 was the last: resolve_imports returns
ResolveReturn ==
    /\ Resolving
    /\ InFrame("resolve", "ret")
    /\ returned' = returned \cup {Top.d}
    /\ stack' = Return(stack)
    /\ UNCHANGED <<location, trees, parser_context, docs, registry, defs, phase, error, published,
                   setLog, resolveLog, loadLog, linkLog, client>>

----------------------------------------------------------------------------
(* Document.__init__, lines 62-67, and the calls of a client *)

\* the attributes lines 63-67 set
Views(d) ==
    [set |-> TRUE, schema |-> defs[d].schema, messages |-> defs[d].messages,
     port_types |-> defs[d].port_types, bindings |-> defs[d].bindings,
     services |-> defs[d].services]

DocPublish ==
    /\ phase = "resolve"
    /\ stack = <<>>
    /\ published' = Views(1)
    /\ phase' = "done"
    /\ UNCHANGED <<location, trees, parser_context, docs, registry, defs, stack, error, returned,
                   setLog, resolveLog, loadLog, linkLog, client>>

\* the Document is constructed and the client has made no call yet
Idle == phase = "done" /\ stack = <<>> /\ client.op = "none"

DefIds == 1..Len(defs)

\* the keys a client asks each table for; "zz" is declared nowhere
ClientKeys(name) ==
    CASE name = "messages" -> {"mA", "mB", "mC", "mS", "mT", "zz"}
      [] name = "port_types" -> {"pA", "pB", "pC", "zz"}
      [] name = "bindings" -> {"bA", "bB", "bC", "bN", "zz"}
      [] name = "services" -> {"sA", "sC", "zz"}

\* a client calls get on a Definition of the finished Document
ClientGet ==
    /\ Idle
    /\ \E d \in DefIds, name \in TableNames : \E key \in ClientKeys(name) :
          client' = [op |-> "get", d |-> d, name |-> name, key |-> key,
                     result |-> Get(d, name, key)]
    /\ UNCHANGED <<location, trees, parser_context, docs, registry, defs, stack, phase, error,
                   published, returned, setLog, resolveLog, loadLog, linkLog>>

\* a client calls resolve_imports again on a Definition whose first call has
\* returned
ClientResolve ==
    /\ Idle
    /\ \E d \in returned :
          /\ client' = [op |-> "resolve", d |-> d, defs |-> defs,
                        resolveLog |-> resolveLog]
          /\ stack' = <<Frame("resolve", d, "guard")>>
    /\ UNCHANGED <<location, trees, parser_context, docs, registry, defs, phase, error, published,
                   returned, setLog, resolveLog, loadLog, linkLog>>

Next ==
    \/ DocLoadRoot
    \/ DocLoadRootFails
    \/ ImportRegistered
    \/ ImportLoadFails
    \/ ImportSchema
    \/ ImportDefinition
    \/ ImportRecursionError
    \/ ParseLocal
    \/ ReturnToImporter
    \/ ReturnToDocument
    \/ ResolveGuarded
    \/ ResolveMark
    \/ ResolveRecurse
    \/ ResolveMessage
    \/ ResolvePortType
    \/ ResolveBinding
    \/ ResolveService
    \/ ResolveReturn
    \/ DocPublish
    \/ ClientGet
    \/ ClientResolve

Spec == Init /\ [][Next]_vars

\* the construction is one sequential computation: it takes its next step
FairSpec == Spec /\ WF_vars(Next)

----------------------------------------------------------------------------
Times(log, x) == Cardinality({j \in 1..Len(log) : log[j] = x})

Ended == phase \in {"done", "failed"}

(* C1: the construction of a Document ends (with the Document or with an
   exception) whatever the import graph, cyclic graphs included; when it
   ends with the Document, every Definition of the import graph reachable
   from the root has resolved = TRUE, and line 174 has set the flag of no
   Definition more than once. *)
C1_CycleTermination ==
    /\ <>Ended
    /\ [](phase = "done" =>
            \A d \in ReachFrom({1}) :
                defs[d].resolved /\ Times(setLog, d) = 1)
    /\ [](\A d \in DefIds : Times(setLog, d) <= 1)

\* a constructed Document whose root imports itself, is on a cycle of
\* length 2 and on a cycle of length 3
C1_Witness ==
    /\ phase = "done"
    /\ 1 \in ImportsOf(1)
    /\ \E b \in DefIds \ {1} :
          /\ b \in ImportsOf(1)
          /\ 1 \in ImportsOf(b)
          /\ \E c \in DefIds \ {1, b} :
                c \in ImportsOf(b) /\ c \notin ImportsOf(1) /\ 1 \in ImportsOf(c)

----------------------------------------------------------------------------
(* C2, as stated: any two import declarations that name the same namespace
   are linked to the same Definition, and the later one causes no load. *)
C2_ImportReuseAsStated ==
    \A i \in 1..Len(linkLog), j \in 1..Len(linkLog) :
        (i < j /\ linkLog[i].ns = linkLog[j].ns) =>
            /\ linkLog[j].to # 0
            /\ linkLog[j].to = linkLog[i].to
            /\ ~linkLog[j].loaded

TnsCount(ns) == Cardinality({d \in DefIds : defs[d].target_namespace = ns})

(* C2, amended: of two import declarations that name the same namespace N,
   the first linked to a Definition whose target namespace is N, the later
   one causes no load and no new Definition and is linked to the Definition
   registered under N; that is the Definition of the first declaration
   unless a second document with target namespace N was parsed. *)
C2_ImportReuse ==
    \A i \in 1..Len(linkLog), j \in 1..Len(linkLog) :
        (/\ i < j
         /\ linkLog[i].ns = linkLog[j].ns
         /\ linkLog[i].to # 0
         /\ defs[linkLog[i].to].target_namespace = linkLog[i].ns) =>
            /\ ~linkLog[j].loaded
            /\ linkLog[j].to # 0
            /\ linkLog[j].to = linkLog[j].reg
            /\ linkLog[j].to = linkLog[i].to \/ TnsCount(linkLog[i].ns) > 1

\* two declarations in different Definitions name nc; the second is linked
\* to the Definition the first one loaded
C2_Witness ==
    \E i \in 1..Len(linkLog), j \in 1..Len(linkLog) :
        /\ i < j
        /\ linkLog[i].ns = "nc" /\ linkLog[j].ns = "nc"
        /\ linkLog[i].by # linkLog[j].by
        /\ linkLog[i].loaded /\ ~linkLog[j].loaded
        /\ linkLog[i].to = linkLog[j].to
        /\ phase = "done"

----------------------------------------------------------------------------
(* C3: imports are not transitive.  When a imports b, b imports c, a imports
   no Definition of c's document and is none itself, and a key of the
   messages, port_types or bindings table is declared in c's document
   alone, get for that key fails on a and returns c's entry on b.  The
   tables of a Definition hold the entries of its own document only. *)
DeclaredOnlyIn(c, name, key) ==
    /\ TableHas(Attr(defs[c], name), key)
    /\ \A x \in DefIds : defs[x].location # defs[c].location =>
                            ~TableHas(Attr(defs[x], name), key)

Chain(a, b, c) ==
    /\ b \in ImportsOf(a)
    /\ c \in ImportsOf(b)
    /\ \A x \in ImportsOf(a) \cup {a} : defs[x].location # defs[c].location

C3_NonTransitivity ==
    /\ client.op = "get" /\ client.name # "services" =>
          \A a \in DefIds, b \in DefIds, c \in DefIds :
              Chain(a, b, c) /\ DeclaredOnlyIn(c, client.name, client.key) =>
                  /\ client.d = a => ~client.result.ok
                  /\ client.d = b =>
                        /\ client.result.ok
                        /\ client.result.val = TableGet(Attr(defs[c], client.name), client.key)
    /\ Ended =>
          \A d \in DefIds, name \in TableNames :
              \A j \in 1..Len(Attr(defs[d], name)) :
                  /\ Attr(defs[d], name)[j].owner = d
                  /\ Attr(defs[d], name)[j].decl = defs[d].location

\* get for C's binding on the root, which imports B, which imports C
C3_Witness ==
    /\ client.op = "get" /\ client.name = "bindings" /\ client.key = "bC"
    /\ client.d = 1
    /\ ~client.result.ok
    /\ \E b \in DefIds, c \in DefIds :
          Chain(1, b, c) /\ DeclaredOnlyIn(c, "bindings", "bC")

----------------------------------------------------------------------------
(* C4: get returns the Definition's own entry when its own table has the
   key; otherwise the entry of the first of its imports, in the order in
   which their namespaces were declared, whose table has the key. *)

\* the namespaces of the declarations of d that linked a Definition, in the
\* order of declaration, each once
RECURSIVE Once(_, _)
Once(nss, seen) ==
    IF nss = <<>> THEN <<>>
    ELSE IF Head(nss) \in seen THEN Once(Tail(nss), seen)
    ELSE <<Head(nss)>> \o Once(Tail(nss), seen \cup {Head(nss)})

DeclaredOrder(d) ==
    LET mine == SelectSeq(linkLog, LAMBDA l : l.by = d /\ l.to # 0)
    IN  Once([j \in 1..Len(mine) |-> mine[j].ns], {})

ImportHits(d, name, key) ==
    {j \in 1..Len(DeclaredOrder(d)) :
        TableHas(Attr(defs[DictGet(defs[d].imports, DeclaredOrder(d)[j])], name), key)}

Min(S) == CHOOSE x \in S : \A y \in S : x <= y

C4_QualifiedLookup ==
    client.op = "get" =>
        LET d == client.d
            name == client.name
            key == client.key
            hits == ImportHits(d, name, key)
        IN  /\ TableHas(Attr(defs[d], name), key) =>
                  client.result = Found(TableGet(Attr(defs[d], name), key))
            /\ ~TableHas(Attr(defs[d], name), key) /\ hits # {} =>
                  LET first == DictGet(defs[d].imports, DeclaredOrder(d)[Min(hits)])
                  IN  client.result = Found(TableGet(Attr(defs[first], name), key))

\* the root declares no "mT" and imports C before B, which both do
C4_Witness ==
    /\ client.op = "get" /\ client.d = 1
    /\ client.name = "messages" /\ client.key = "mT"
    /\ DeclaredOrder(1) = <<"nc", "nb">>
    /\ Cardinality(ImportHits(1, "messages", "mT")) = 2
    /\ client.result.ok /\ client.result.val.decl = "LC"

----------------------------------------------------------------------------
(* C5: a get that finds the key neither in the Definition's own table nor
   in the table of a direct import fails with an error that carries the
   table name and the key. *)
Carries(err, x) == \E j \in 1..Len(err.args) : err.args[j] = x

C5_NotFoundCarriesNameAndKey ==
    (/\ client.op = "get"
     /\ \A x \in ImportsOf(client.d) \cup {client.d} :
            ~TableHas(Attr(defs[x], client.name), client.key)) =>
        /\ ~client.result.ok
        /\ client.result.err.exc = "IndexError"
        /\ Carries(client.result.err, client.name)
        /\ Carries(client.result.err, client.key)

----------------------------------------------------------------------------
(* C6: a second call of resolve_imports on a Definition, after the first
   has returned, leaves every Definition (its schema, tables, imports and
   flag) as it was and calls the resolve of no entity. *)
C6_IdempotentResolve ==
    client.op = "resolve" =>
        /\ defs = client.defs
        /\ resolveLog = client.resolveLog
        /\ phase = "done"

\* the second call on a Definition with imports has returned
C6_Witness ==
    /\ client.op = "resolve"
    /\ stack = <<>>
    /\ ImportsOf(client.d) \ {client.d} # {}
    /\ defs[client.d].messages # <<>>

----------------------------------------------------------------------------
(* C7: after resolve_imports a Definition's schema is never None; a
   Definition that parsed a schema of its own keeps it; one that did not
   has the schema of its first import, in the order of imports, whose
   schema is there and not empty, and an empty schema at its own location
   only when there is no such import. *)
AdoptFrom(d) ==
    {j \in 1..Len(defs[d].imports) :
        LET s == defs[defs[d].imports[j][2]].schema
        IN  s # None /\ ~s.is_empty}

C7_SchemaAdoption ==
    \A d \in DefIds : defs[d].resolved =>
        /\ defs[d].schema # None
        /\ SchemaNodes(d) # <<>> =>
              defs[d].schema.by = d /\ defs[d].schema.origin # "empty"
        /\ SchemaNodes(d) = <<>> =>
              IF AdoptFrom(d) # {}
              THEN defs[d].schema = defs[defs[d].imports[Min(AdoptFrom(d))][2]].schema
              ELSE defs[d].schema = EmptySchema(d)

----------------------------------------------------------------------------
(* C8: a binding declaration is parsed as the kind of the first of the
   matchers SOAP 1.1, SOAP 1.2, HTTP GET, HTTP POST that accepts it and has
   exactly one entry, of that kind, in the bindings table; a declaration
   that no matcher accepts has no entry, and the construction goes on. *)
ClaimedOrder == <<"soap11", "soap12", "httpget", "httppost">>

Accepting(node) == {k \in 1..Len(ClaimedOrder) : ClaimedOrder[k] \in node.match}

\* the constructor of d is past line 152
Parsed(d) ==
    \/ phase \in {"resolve", "done"}
    \/ phase = "failed" /\ setLog # <<>>
    \/ /\ phase = "parse"
       /\ \A k \in 1..Len(stack) :
             ~(stack[k].fn = "init" /\ stack[k].d = d /\ stack[k].pc = "imports")

EntriesOf(d, name, key) ==
    {j \in 1..Len(Attr(defs[d], name)) : Attr(defs[d], name)[j].name = key}

C8_BindingClassification ==
    \A d \in DefIds : Parsed(d) =>
        /\ \A n \in 1..Len(DocOf(d).bindings) :
              LET node == DocOf(d).bindings[n]
              IN  IF Accepting(node) = {}
                  THEN EntriesOf(d, "bindings", node.name) = {}
                  ELSE /\ Cardinality(EntriesOf(d, "bindings", node.name)) = 1
                       /\ TableGet(defs[d].bindings, node.name).kind =
                              ClaimedOrder[Min(Accepting(node))]
        /\ \A j \in 1..Len(defs[d].bindings) :
              \E n \in 1..Len(DocOf(d).bindings) :
                  DocOf(d).bindings[n].name = defs[d].bindings[j].name

\* a Document is constructed from a root whose first binding is accepted by
\* the SOAP 1.2 and the HTTP POST matcher and whose second by none
C8_Witness ==
    /\ phase = "done"
    /\ Len(docs["LA"].bindings) = 2
    /\ docs["LA"].bindings[1].match = {"soap12", "httppost"}
    /\ docs["LA"].bindings[2].match = {}
    /\ Len(defs[1].bindings) = 1
    /\ defs[1].bindings[1].kind = "soap12"

----------------------------------------------------------------------------
(* C9: the public attributes of the Document are set only when the
   construction has succeeded, after resolve_imports has returned on the
   root, and then they are the root Definition's schema and tables; a
   construction that fails sets none of them. *)
C9_AllOrNothing ==
    /\ phase # "done" => published = Unset
    /\ error # NoError => published = Unset /\ phase = "failed"
    /\ phase = "done" =>
          /\ 1 \in returned
          /\ published.set
          /\ published.schema = defs[1].schema
          /\ published.messages = defs[1].messages
          /\ published.port_types = defs[1].port_types
          /\ published.bindings = defs[1].bindings
          /\ published.services = defs[1].services

\* a lookup failed in resolve_imports of an imported Definition, after the
\* root's flag was set
C9_Witness ==
    /\ phase = "failed"
    /\ error.exc = "IndexError"
    /\ Len(setLog) >= 2
    /\ published = Unset

----------------------------------------------------------------------------
(* C10, as stated: while a Definition resolves its own messages, port
   types, bindings and services, every Definition it imports has finished
   resolve_imports; and the port type a binding refers to was resolved
   before the binding. *)
OwnLoops == {"messages", "port_types", "bindings", "services"}

\* the Definitions that are resolving their own entities
InOwnLoops ==
    {stack[k].d : k \in {m \in 1..Len(stack) :
        stack[m].fn = "resolve" /\ stack[m].pc \in OwnLoops \cup {"ret"}}}

\* the Definitions whose flag is set and whose resolve_imports has not returned
InProgress ==
    {stack[k].d : k \in {m \in 1..Len(stack) :
        stack[m].fn = "resolve" /\ stack[m].pc # "guard"}}

ResolvedBefore(j, e) ==
    \E i \in 1..(j - 1) :
        /\ resolveLog[i].owner = e.owner
        /\ resolveLog[i].name = e.name
        /\ resolveLog[i].table = "port_types"

BindingResolves ==
    {j \in 1..Len(resolveLog) :
        resolveLog[j].table = "bindings" /\ resolveLog[j].target # None}

C10_ImportsFirstAsStated ==
    /\ \A d \in InOwnLoops : \A x \in ImportsOf(d) : x \in returned
    /\ \A j \in BindingResolves : ResolvedBefore(j, resolveLog[j].target)

Acyclic == \A d \in DefIds : d \notin ReachFrom(ImportsOf(d))

(* C10, amended: while a Definition resolves its own entities, each
   Definition it imports has finished resolve_imports or is inside
   resolve_imports further up the call stack (or is the Definition
   itself), with its flag set; the port type a binding refers to was
   resolved before the binding unless it belongs to such a Definition up
   the call stack.  When the import graph has no cycle, every import has
   finished and every port type was resolved before. *)
C10_ImportsFirst ==
    /\ \A d \in InOwnLoops : \A x \in ImportsOf(d) :
          /\ defs[x].resolved
          /\ x \in returned \/ x \in InProgress
    /\ \A j \in BindingResolves :
          \/ ResolvedBefore(j, resolveLog[j].target)
          \/ /\ resolveLog[j].target.owner \in resolveLog[j].callers
             /\ resolveLog[j].target.owner # resolveLog[j].owner
    /\ Acyclic /\ phase \in {"resolve", "done"} => C10_ImportsFirstAsStated

\* B, imported by the root, resolves its binding: its import C has finished
\* and C's port type was resolved before, the root it imports too has not
C10_Witness ==
    /\ InFrame("resolve", "services")
    /\ Top.d # 1
    /\ 1 \in ImportsOf(Top.d) /\ 1 \notin returned
    /\ \E x \in ImportsOf(Top.d) : x \in returned
    /\ \E j \in BindingResolves :
          /\ resolveLog[j].owner = Top.d
          /\ resolveLog[j].target.owner # Top.d
          /\ ResolvedBefore(j, resolveLog[j].target)

----------------------------------------------------------------------------
(* C11: an import declaration whose document has a bare schema root creates,
   registers and links no Definition, and once the constructor of the
   importing Definition is past its parse phase, the schema built from that
   document is the Definition's schema, for a Definition without schema
   fragments under wsdl:types. *)
BareImports ==
    {j \in 1..Len(linkLog) :
        linkLog[j].loaded /\ docs[linkLog[j].location].root = "schema"}

C11_BareSchemaImport ==
    \A j \in BareImports :
        LET e == linkLog[j]
        IN  /\ e.to = 0
            /\ \A d \in DefIds : defs[d].location # e.location
            /\ \A k \in 1..Len(registry) : registry[k][1] # e.ns
            /\ ~DictHas(defs[e.by].imports, e.ns)
            /\ Parsed(e.by) /\ SchemaNodes(e.by) = <<>> =>
                  /\ defs[e.by].schema # None
                  /\ defs[e.by].schema.origin = "bare"
                  /\ defs[e.by].schema.node = [doc |-> e.location]

----------------------------------------------------------------------------
(* C12: when the constructor of a Definition is about to process the first
   of its import declarations, and as long as it is in parse_imports, the
   registry has the Definition's target namespace as a key (mapped to the
   Definition itself before the first declaration); an import declaration
   that names the target namespace of a Definition whose constructor is
   running loads nothing and is linked to a Definition of that namespace
   whose constructor is running. *)
InParseImports(k) == stack[k].fn = "init" /\ stack[k].pc = "imports"

C12_RegisteredBeforeImports ==
    /\ \A k \in 1..Len(stack) : InParseImports(k) =>
          /\ DictHas(registry, defs[stack[k].d].target_namespace)
          /\ k = Len(stack) /\ stack[k].i = 1 =>
                DictGet(registry, defs[stack[k].d].target_namespace) = stack[k].d
    /\ \A j \in 1..Len(linkLog) :
          LET e == linkLog[j]
          IN  (\E d \in e.open : defs[d].target_namespace = e.ns) =>
                 /\ ~e.loaded
                 /\ e.to \in e.open
                 /\ defs[e.to].target_namespace = e.ns

\* a Document is constructed whose graph has an import that led back to a
\* Definition under construction other than the importer, and one that led
\* back to the importer itself
C12_Witness ==
    /\ phase = "done"
    /\ \E j \in 1..Len(linkLog) :
          linkLog[j].to \in linkLog[j].open \ {linkLog[j].by}
    /\ \E j \in 1..Len(linkLog) : linkLog[j].to = linkLog[j].by

----------------------------------------------------------------------------
(* C13: during the parse phase no namespace key of the registry that maps
   to a Definition is mapped to another Definition (the Definition
   constructed for an import declaration is registered under a namespace
   that was no key of the registry before), and every entry of the registry
   is stored under the target_namespace of the Definition it holds. *)
C13_RegistryAppendOnly ==
    /\ \A j \in 1..Len(linkLog) :
          linkLog[j].loaded /\ linkLog[j].to # 0 => linkLog[j].held = 0
    /\ \A k \in 1..Len(registry) :
          defs[registry[k][2]].target_namespace = registry[k][1]

----------------------------------------------------------------------------
(* C14: line 174 sets the resolved flag of a Definition at most once and
   the flag stays set; when the Document is constructed, every Definition
   that was created during the build has resolved = TRUE and each of its
   local messages, port types, bindings and services has been resolved
   exactly once. *)
ResolveCalls(d, name, key) ==
    {k \in 1..Len(resolveLog) :
        /\ resolveLog[k].owner = d
        /\ resolveLog[k].table = name
        /\ resolveLog[k].name = key}

ResolvedOnce(d) ==
    /\ defs[d].resolved
    /\ \A name \in TableNames : \A j \in 1..Len(Attr(defs[d], name)) :
          Cardinality(ResolveCalls(d, name, Attr(defs[d], name)[j].name)) = 1

C14_ExactlyOnceWholeGraph ==
    /\ \A d \in DefIds :
          /\ Times(setLog, d) <= 1
          /\ defs[d].resolved <=> Times(setLog, d) = 1
    /\ phase = "done" => \A d \in DefIds : ResolvedOnce(d)

----------------------------------------------------------------------------
(* C15: parse_types of a Definition without schema fragments gives no
   schema (None); with one fragment it gives the schema built from the tree
   of that fragment, and no container and no token is made; with two or
   more fragments it gives the schema built from a container that holds,
   for each fragment in order, an import directive whose schemaLocation is
   the fragment's token and whose namespace is the fragment's target
   namespace (none when the fragment has none). *)
TypesCalled(d) ==
    \/ Parsed(d)
    \/ phase = "failed" /\ error.exc = "KeyError" /\ error.by = d

TreesOf(d) == {t \in 1..Len(trees) : trees[t].by = d}

TokensOf(d) ==
    {k \in 1..Len(parser_context.schema_nodes) :
        parser_context.schema_nodes[k].by = d}

RECURSIVE ImportsBefore(_, _)
ImportsBefore(frags, i) ==
    IF i <= 1 THEN 0
    ELSE Len(frags[i - 1].imports) + ImportsBefore(frags, i - 1)

\* the place in the container of the import of fragment i
PlaceOf(frags, i) == i + ImportsBefore(frags, i)

C15_StitcherShape ==
    \A d \in DefIds : TypesCalled(d) =>
        LET frags == SchemaNodes(d)
            schema == defs[d].schema
        IN  /\ Len(frags) = 0 =>
                  /\ ~defs[d].resolved => schema = None
                  /\ TreesOf(d) = {} /\ TokensOf(d) = {}
            /\ Len(frags) = 1 =>
                  /\ schema.origin = "fragment"
                  /\ \E t \in TreesOf(d) :
                        /\ schema.node = [tree |-> t]
                        /\ trees[t].tns = frags[1].tns
                        /\ trees[t].imports = frags[1].imports
                  /\ TokensOf(d) = {}
            /\ Len(frags) >= 2 =>
                  /\ schema.origin = "container"
                  /\ \A i \in 1..Len(frags) :
                        /\ PlaceOf(frags, i) <= Len(schema.node.body)
                        /\ schema.node.body[PlaceOf(frags, i)] =
                              [schemaLocation |-> Token(i - 1),
                               namespace |-> frags[i].tns]

----------------------------------------------------------------------------
(* C16: parse_types of a Definition with two or more fragments does not
   fail, and for every import directive of every fragment the container
   holds, after the import of that fragment, a copy with the directive's
   namespace and with the directive's schemaLocation when it has one, else
   with the token of a fragment whose target namespace is the directive's
   namespace. *)
StitchFailed(d) == phase = "failed" /\ error.exc = "KeyError" /\ error.by = d

C16_ImportRewrite ==
    \A d \in DefIds : TypesCalled(d) /\ Len(SchemaNodes(d)) >= 2 =>
        LET frags == SchemaNodes(d)
            schema == defs[d].schema
        IN  /\ ~StitchFailed(d)
            /\ schema.origin = "container"
            /\ \A i \in 1..Len(frags) : \A j \in 1..Len(frags[i].imports) :
                  LET directive == frags[i].imports[j]
                      place == PlaceOf(frags, i) + j
                  IN  /\ place <= Len(schema.node.body)
                      /\ schema.node.body[place].namespace = directive.namespace
                      /\ IF directive.schemaLocation # Absent
                         THEN schema.node.body[place].schemaLocation =
                                  directive.schemaLocation
                         ELSE \E k \in 1..Len(frags) :
                                 /\ frags[k].tns = directive.namespace
                                 /\ schema.node.body[place].schemaLocation =
                                        Token(k - 1)

----------------------------------------------------------------------------
(* C17: every fragment tree parse_types has parsed (the trees given to the
   stitch and registered in the parser context) has the import directives,
   with the schemaLocation attributes, of the fragment it was parsed from,
   also after the stitch. *)
C17_FragmentsUnchanged ==
    \A t \in 1..Len(trees) :
        trees[t].imports = SchemaNodes(trees[t].by)[trees[t].index + 1].imports

----------------------------------------------------------------------------
(* C18: over the whole construction of a Document no token is registered
   in the parser context for two different fragment trees, and within the
   parse_types of one Definition no two fragments have the same token in
   the map from namespace to token. *)
TokenRegisteredOnce ==
    \A j, k \in 1..Len(parser_context.schema_nodes) :
        parser_context.schema_nodes[j].token = parser_context.schema_nodes[k].token
            => parser_context.schema_nodes[j].tree = parser_context.schema_nodes[k].tree

TokenPerFragment ==
    \A d \in DefIds : TypesCalled(d) /\ Len(SchemaNodes(d)) >= 2 =>
        LET frags == SchemaNodes(d)
            schema_ns == SchemaNs(frags, 1, <<>>)
        IN  \A i, k \in 1..Len(frags) :
               i # k => DictGet(schema_ns, frags[i].tns) # DictGet(schema_ns, frags[k].tns)

C18_TokensUnambiguous == TokenRegisteredOnce /\ TokenPerFragment

====
